---- MODULE Spec2Model ----
(***************************************************************************)
(* Model of the landscapes project editor's computational core:            *)
(*   - the "Map layer" output sink node and the evaluation passes that run  *)
(*     its worker (map_layer_component, toolbar),                           *)
(*   - the node component's debounced "process" trigger (state.ts),         *)
(*   - the tile grid data model (tile_grid).                                *)
(***************************************************************************)
EXTENDS Integers, Sequences, FiniteSets, TLC

VARIABLES
    \* ---- output sink and evaluation passes
    sinkInEditor,       \* the sink node is in this.editor.nodes
    errorMessage,       \* editorNode.meta.errorMessage of the sink node
    sinkInputs,         \* what the current graph resolves for the sink's socket 'in'
    saveCalls,          \* the calls made of this.callback, in order: <<id, value>>
    autoProcessing,     \* Toolbar prop autoProcessing
    isProcessing,       \* Toolbar prop isProcessing
    generation,         \* scheduler's generation counter
    passes,             \* the evaluation passes in flight
    \* ---- node components (NodeComponent)
    inputDebounceTimer, \* per component: ms left on its armed timer, or NoTimer
    nodeName,           \* per component: node.data.name
    sinceEdit,          \* per component: ms since its last handleInputChange
    edits,              \* per component: number of handleInputChange calls
    burstEdits,         \* per component: edits since its timer was first armed
    ownTriggers,        \* per component: triggers emitted since its timer was first armed
    burstTriggers,      \* triggers emitted since the running sequence of edits began
    \* ---- tile grids
    grid,               \* the tile grid at hand (or NoGrid)
    boolGrid,           \* the boolean grid handed to applyCategoryFromBooleanGrid
    \* ---- the last handler that ran, with its arguments and result
    op

sinkVars == <<sinkInEditor, errorMessage, sinkInputs, saveCalls, autoProcessing,
              isProcessing, generation, passes>>

debounceVars == <<inputDebounceTimer, nodeName, sinceEdit, edits, burstEdits, ownTriggers,
                  burstTriggers>>

gridVars == <<grid, boolGrid>>

vars == <<sinkInEditor, errorMessage, sinkInputs, saveCalls, autoProcessing,
          isProcessing, generation, passes,
          inputDebounceTimer, nodeName, sinceEdit, edits, burstEdits, ownTriggers,
          burstTriggers, grid, boolGrid,
          op>>

(***************************************************************************)
(* Output sink node and evaluation passes                                  *)
(***************************************************************************)

\* Number of dispatches explored.
MaxGeneration == 3
\* Number of passes that may be in flight together.
MaxPasses == 2

\* node.id of the sink node
SinkId == 1

\* meta.errorMessage deleted / never set
NoError == "none"

\* Resolved value lists of the socket 'in': unconnected, one edge, two edges.
InputLists == {<<>>, <<"A">>, <<"B">>, <<"B", "A">>}

SinkInit ==
    /\ sinkInEditor = TRUE
    /\ errorMessage = NoError
    /\ sinkInputs = <<>>
    /\ saveCalls = <<>>
    /\ autoProcessing = TRUE
    /\ isProcessing = FALSE
    /\ generation = 0
    /\ passes = {}

\* The editor connects, disconnects or re-orders the edges into the sink.
EditConnections(l) ==
    /\ UNCHANGED <<debounceVars, gridVars>>
    /\ sinkInEditor
    /\ l # sinkInputs
    /\ sinkInputs' = l
    /\ op' = [name |-> "connect"]
    /\ UNCHANGED <<sinkInEditor, errorMessage, saveCalls, autoProcessing,
                   isProcessing, generation, passes>>

\* The editor removes the sink node: the node object and its meta go.
RemoveNode ==
    /\ UNCHANGED <<debounceVars, gridVars>>
    /\ sinkInEditor
    /\ sinkInEditor' = FALSE
    /\ errorMessage' = NoError
    /\ sinkInputs' = <<>>
    /\ op' = [name |-> "removeNode"]
    /\ UNCHANGED <<saveCalls, autoProcessing, isProcessing, generation, passes>>

\* The editor adds the sink node (MapLayerComponent.builder: one input 'in').
AddNode ==
    /\ UNCHANGED <<debounceVars, gridVars>>
    /\ ~sinkInEditor
    /\ sinkInEditor' = TRUE
    /\ errorMessage' = NoError
    /\ sinkInputs' = <<>>
    /\ op' = [name |-> "addNode"]
    /\ UNCHANGED <<saveCalls, autoProcessing, isProcessing, generation, passes>>

\* Toolbar: onClick={() => setAutoProcessing(!autoProcessing)}
SetAutoProcessing ==
    /\ UNCHANGED <<debounceVars, gridVars>>
    /\ autoProcessing' = ~autoProcessing
    /\ op' = [name |-> "setAutoProcessing"]
    /\ UNCHANGED <<sinkInEditor, errorMessage, sinkInputs, saveCalls,
                   isProcessing, generation, passes>>

\* On dispatch: advance the generation, capture it with a snapshot of the
\* graph, go to Running and start the worker pass.
Dispatch ==
    /\ generation < MaxGeneration
    /\ Cardinality(passes) < MaxPasses
    /\ generation' = generation + 1
    /\ isProcessing' = TRUE
    /\ passes' = passes \cup {[gen |-> generation + 1, hasNode |-> sinkInEditor,
                               inputs |-> sinkInputs, ran |-> FALSE]}
    /\ UNCHANGED <<sinkInEditor, errorMessage, sinkInputs, saveCalls, autoProcessing>>

\* Toolbar: the Run button is rendered only when !autoProcessing and is
\* disabled while isProcessing.
ManualProcessing ==
    /\ UNCHANGED <<debounceVars, gridVars>>
    /\ ~autoProcessing
    /\ ~isProcessing
    /\ Dispatch
    /\ op' = [name |-> "manualProcessing"]

\* Auto mode: an edit's "process" trigger dispatches, also while Running.
AutoProcess ==
    /\ UNCHANGED <<debounceVars, gridVars>>
    /\ autoProcessing
    /\ Dispatch
    /\ op' = [name |-> "process"]

\* MapLayerComponent.worker without "delete editorNode.meta.errorMessage".
MapLayerWorker_KeepsError(p) ==
    /\ UNCHANGED <<debounceVars, gridVars>>
    /\ p \in passes
    /\ p.hasNode
    /\ ~p.ran
    /\ passes' = (passes \ {p}) \cup {[p EXCEPT !.ran = TRUE]}
    /\ op' = [name |-> "worker", gen |-> p.gen, present |-> sinkInEditor,
              inputs |-> p.inputs, errBefore |-> errorMessage]
    /\ IF ~sinkInEditor
         THEN UNCHANGED <<errorMessage, saveCalls>>
         ELSE IF Len(p.inputs) = 0
           THEN /\ errorMessage' = "No input"
                /\ UNCHANGED saveCalls
           ELSE /\ UNCHANGED errorMessage
                /\ saveCalls' = Append(saveCalls, <<SinkId, p.inputs[1]>>)
    /\ UNCHANGED <<sinkInEditor, sinkInputs, autoProcessing, isProcessing, generation>>

\* MapLayerComponent.worker, run by pass p for the sink node of its snapshot.
MapLayerWorker(p) ==
    /\ UNCHANGED <<debounceVars, gridVars>>
    /\ p \in passes
    /\ p.hasNode
    /\ ~p.ran
    /\ passes' = (passes \ {p}) \cup {[p EXCEPT !.ran = TRUE]}
    /\ op' = [name |-> "worker", gen |-> p.gen, present |-> sinkInEditor,
              inputs |-> p.inputs, errBefore |-> errorMessage]
    /\ IF ~sinkInEditor
         THEN UNCHANGED <<errorMessage, saveCalls>>
         ELSE IF Len(p.inputs) = 0
           THEN /\ errorMessage' = "No input"
                /\ UNCHANGED saveCalls
           ELSE /\ errorMessage' = NoError
                /\ saveCalls' = Append(saveCalls, <<SinkId, p.inputs[1]>>)
    /\ UNCHANGED <<sinkInEditor, sinkInputs, autoProcessing, isProcessing, generation>>

\* On pass completion: the pass's generation is compared with the current
\* one; the current pass returns the scheduler to Idle, a stale one is dropped.
PassComplete(p) ==
    /\ UNCHANGED <<debounceVars, gridVars>>
    /\ p \in passes
    /\ p.ran \/ ~p.hasNode
    /\ passes' = passes \ {p}
    /\ isProcessing' = IF p.gen = generation THEN FALSE ELSE isProcessing
    /\ op' = [name |-> "complete", gen |-> p.gen]
    /\ UNCHANGED <<sinkInEditor, errorMessage, sinkInputs, saveCalls,
                   autoProcessing, generation>>

SinkNext ==
    \/ \E l \in InputLists : EditConnections(l)
    \/ RemoveNode
    \/ AddNode
    \/ SetAutoProcessing
    \/ ManualProcessing
    \/ AutoProcess
    \/ \E p \in passes : MapLayerWorker(p)
    \/ \E p \in passes : PassComplete(p)

(***************************************************************************)
(* Node components: the debounced "process" trigger                        *)
(***************************************************************************)

\* setTimeout(..., 500)
Delay == 500
\* Granularity of the clock, in ms.
TickMs == 100
\* Number of edits explored per component.
MaxEdits == 3

\* The node components rendered by the editor, one per node.
Components == {"n1", "n2"}

\* Values of the name field (e.target.value).
Names == {"", "a"}

\* inputDebounceTimer holds no armed timer.
NoTimer == -1

Min(a, b) == IF a <= b THEN a ELSE b

\* ms since the last edit of any component; Delay + 1 stands for "longer".
Idle == LET ages == {sinceEdit[c] : c \in Components}
        IN  CHOOSE a \in ages : \A b \in ages : a <= b

DebounceInit ==
    /\ inputDebounceTimer = [c \in Components |-> NoTimer]
    /\ nodeName = [c \in Components |-> ""]
    /\ sinceEdit = [c \in Components |-> Delay + 1]
    /\ edits = [c \in Components |-> 0]
    /\ burstEdits = [c \in Components |-> 0]
    /\ ownTriggers = [c \in Components |-> 0]
    /\ burstTriggers = 0

\* A timer that is due runs its callback before any later event is handled.
NoTimerDue == \A c \in Components : inputDebounceTimer[c] # 0

\* handleInputChange arming the timer only when none is armed.
HandleInputChange_NoRearm(c, value) ==
    /\ UNCHANGED <<sinkVars, gridVars>>
    /\ NoTimerDue
    /\ edits[c] < MaxEdits
    /\ value # nodeName[c]
    /\ nodeName' = [nodeName EXCEPT ![c] = value]
    /\ inputDebounceTimer' = [inputDebounceTimer EXCEPT
           ![c] = IF @ = NoTimer THEN Delay ELSE @]
    /\ sinceEdit' = [sinceEdit EXCEPT ![c] = 0]
    /\ edits' = [edits EXCEPT ![c] = @ + 1]
    /\ burstEdits' = [burstEdits EXCEPT
           ![c] = IF inputDebounceTimer[c] = NoTimer THEN 1 ELSE @ + 1]
    /\ ownTriggers' = [ownTriggers EXCEPT
           ![c] = IF inputDebounceTimer[c] = NoTimer THEN 0 ELSE @]
    /\ burstTriggers' = IF Idle >= Delay THEN 0 ELSE burstTriggers
    /\ op' = [name |-> "edit", c |-> c, armed |-> inputDebounceTimer[c] # NoTimer]

\* NodeComponent.handleInputChange: store the name, clear this component's
\* timer and arm it again for Delay ms.
HandleInputChange(c, value) ==
    /\ UNCHANGED <<sinkVars, gridVars>>
    /\ NoTimerDue
    /\ edits[c] < MaxEdits
    /\ value # nodeName[c]
    /\ nodeName' = [nodeName EXCEPT ![c] = value]
    /\ inputDebounceTimer' = [inputDebounceTimer EXCEPT ![c] = Delay]
    /\ sinceEdit' = [sinceEdit EXCEPT ![c] = 0]
    /\ edits' = [edits EXCEPT ![c] = @ + 1]
    /\ burstEdits' = [burstEdits EXCEPT
           ![c] = IF inputDebounceTimer[c] = NoTimer THEN 1 ELSE @ + 1]
    /\ ownTriggers' = [ownTriggers EXCEPT
           ![c] = IF inputDebounceTimer[c] = NoTimer THEN 0 ELSE @]
    /\ burstTriggers' = IF Idle >= Delay THEN 0 ELSE burstTriggers
    /\ op' = [name |-> "edit", c |-> c, armed |-> inputDebounceTimer[c] # NoTimer]

\* The timer's callback: editor.trigger("process").
TimerFire(c) ==
    /\ UNCHANGED <<sinkVars, gridVars>>
    /\ inputDebounceTimer[c] = 0
    /\ inputDebounceTimer' = [inputDebounceTimer EXCEPT ![c] = NoTimer]
    /\ ownTriggers' = [ownTriggers EXCEPT ![c] = @ + 1]
    /\ burstTriggers' = burstTriggers + 1
    /\ op' = [name |-> "trigger", c |-> c, sinceEdit |-> sinceEdit[c], idle |-> Idle]
    /\ UNCHANGED <<nodeName, sinceEdit, edits, burstEdits>>

\* Time passes: at most TickMs, and not beyond the next timer that is due.
Tick ==
    /\ UNCHANGED <<sinkVars, gridVars>>
    /\ NoTimerDue
    /\ \E c \in Components : sinceEdit[c] <= Delay
    /\ LET left == {TickMs} \cup ({inputDebounceTimer[c] : c \in Components} \ {NoTimer})
           d == CHOOSE a \in left : \A b \in left : a <= b
       IN  /\ inputDebounceTimer' = [c \in Components |->
                   IF inputDebounceTimer[c] = NoTimer THEN NoTimer
                   ELSE inputDebounceTimer[c] - d]
           /\ sinceEdit' = [c \in Components |-> Min(sinceEdit[c] + d, Delay + 1)]
           /\ op' = [name |-> "tick", d |-> d]
    /\ UNCHANGED <<nodeName, edits, burstEdits, ownTriggers, burstTriggers>>

DebounceNext ==
    \/ \E c \in Components, value \in Names : HandleInputChange(c, value)
    \/ \E c \in Components : TimerFire(c)
    \/ Tick

(***************************************************************************)
(* Tile grids                                                              *)
(***************************************************************************)

\* Largest zoom, origin coordinate and side handed to a constructor.
MaxZoom == 3
MaxOrigin == 1
MaxSide == 2
\* Largest cell buffer explored.
MaxCells == 4

\* Numbers handed to a constructor are written in halves, so that a
\* non-integer can be passed: Whole(n) is n, and 1 is 0.5.
Whole(n) == 2 * n

ZoomArgs == {Whole(-1), 1, Whole(0), Whole(1), Whole(MaxZoom)}
OriginArgs == {Whole(-1), 1} \cup {Whole(o) : o \in 0..MaxOrigin}
SideArgs == {1} \cup {Whole(l) : l \in 0..MaxSide}

\* Float32 cell values: small integers, and the non-finite ones.
PosInf == 1000
NegInf == -1000
NaN == 9999
Floats == {-1, 0, NaN, PosInf}

\* Values handed to CategoricalTileGrid.set; a Uint8Array keeps them mod 256.
Codes == {1, 2, 255, 257}

\* Label maps handed to the categorical constructor, in insertion order.
LabelMaps == {<<>>, <<<<1, "a">>>>, <<<<2, "b">>, <<1, "a">>>>}

\* toIndex's undefined
Undefined == -1

NoGrid == [type |-> "none"]

IsTileGrid(g) == g.type \in {"BooleanTileGrid", "NumericTileGrid", "CategoricalTileGrid"}

Throw(name, message) == [ok |-> FALSE, error |-> name, message |-> message]
Return(v) == [ok |-> TRUE, value |-> v]

\* Number.isInteger, on a number written in halves
IsInteger(n) == n % 2 = 0

\* validateZoom: does not throw
ValidateZoom(zoom) == IsInteger(zoom) /\ zoom >= 0

\* validateAxisExtent with "start <= 2^zoom" for "start < 2^zoom" and no
\* upper limit on the length.
ValidateAxisExtent_NoUpper(zoom, start, length) ==
    /\ IsInteger(start) /\ start >= 0 /\ start <= Whole(2 ^ (zoom \div 2))
    /\ IsInteger(length) /\ length > 0

\* validateAxisExtent: does not throw (zoom has passed validateZoom)
ValidateAxisExtent(zoom, start, length) ==
    /\ IsInteger(start) /\ start >= 0 /\ start < Whole(2 ^ (zoom \div 2))
    /\ IsInteger(length) /\ length > 0
    /\ length <= Whole(2 ^ (zoom \div 2)) - start

\* TileGrid.constructor: the geometry fields, or the error thrown
TileGrid(zoom, x, y, width, height) ==
    IF ~ValidateZoom(zoom) THEN Throw("TypeError", "zoom must be an integer >= 0")
    ELSE IF ~ValidateAxisExtent(zoom, x, width) THEN Throw("TypeError", "extent out of range")
    ELSE IF ~ValidateAxisExtent(zoom, y, height) THEN Throw("TypeError", "extent out of range")
    ELSE Return([zoom |-> zoom \div 2, x |-> x \div 2, y |-> y \div 2,
                 width |-> width \div 2, height |-> height \div 2])

\* new TypedArray(n).fill(v)
Fill(n, v) == [i \in 1..n |-> v]

\* What a Uint8Array element keeps of a number
ToUint8(v) == v % 256

NoLabels == [defined |-> FALSE, entries |-> <<>>]
NoMinMax == [cached |-> FALSE, min |-> 0, max |-> 0]

\* new BooleanTileGrid(zoom, x, y, width, height, initialValue); initialValue
\* is a boolean (isArray = FALSE) or a Uint8Array
BooleanTileGrid(zoom, x, y, width, height, isArray, initialValue) ==
    LET base == TileGrid(zoom, x, y, width, height)
    IN  IF ~base.ok THEN base
        ELSE Return([type |-> "BooleanTileGrid",
                     zoom |-> base.value.zoom, x |-> base.value.x, y |-> base.value.y,
                     width |-> base.value.width, height |-> base.value.height,
                     data |-> IF isArray THEN initialValue
                              ELSE Fill(base.value.width * base.value.height,
                                        IF initialValue THEN 1 ELSE 0),
                     minMax |-> NoMinMax, labels |-> NoLabels])

\* new NumericTileGrid(zoom, x, y, width, height, initialValue); initialValue
\* is a number or a Float32Array
NumericTileGrid(zoom, x, y, width, height, isArray, initialValue) ==
    LET base == TileGrid(zoom, x, y, width, height)
    IN  IF ~base.ok THEN base
        ELSE Return([type |-> "NumericTileGrid",
                     zoom |-> base.value.zoom, x |-> base.value.x, y |-> base.value.y,
                     width |-> base.value.width, height |-> base.value.height,
                     data |-> IF isArray THEN initialValue
                              ELSE Fill(base.value.width * base.value.height, initialValue),
                     minMax |-> NoMinMax, labels |-> NoLabels])

\* CategoricalTileGrid.setLabels
SetLabels(g, labels) ==
    [g EXCEPT !.labels = [defined |-> TRUE, entries |-> labels],
              !.minMax = [cached |-> TRUE, min |-> 0, max |-> Len(labels)]]

\* new CategoricalTileGrid(zoom, x, y, width, height, initialValue?, labels?)
CategoricalTileGrid(zoom, x, y, width, height, hasData, initialValue, hasLabels, labels) ==
    LET base == TileGrid(zoom, x, y, width, height)
        g == [type |-> "CategoricalTileGrid",
              zoom |-> base.value.zoom, x |-> base.value.x, y |-> base.value.y,
              width |-> base.value.width, height |-> base.value.height,
              data |-> IF hasData THEN initialValue
                       ELSE Fill(base.value.width * base.value.height, 255),
              minMax |-> NoMinMax, labels |-> NoLabels]
    IN  IF ~base.ok THEN base
        ELSE Return(IF hasLabels THEN SetLabels(g, labels) ELSE g)

\* toIndex
ToIndex(g, x, y) ==
    IF x >= g.x /\ x < g.x + g.width /\ y >= g.y /\ y < g.y + g.height
    THEN (x - g.x) * g.height + (y - g.y)
    ELSE Undefined

\* data[index] of a typed array: index 0 is the first element
At(data, index) == data[index + 1]

\* The variant's value for a coordinate outside the extent
DefaultValue(g) ==
    CASE g.type = "BooleanTileGrid" -> FALSE
      [] g.type = "NumericTileGrid" -> 0
      [] g.type = "CategoricalTileGrid" -> 255

\* What get returns for the stored element
CellValue(g, index) ==
    IF g.type = "BooleanTileGrid" THEN At(g.data, index) = 1 ELSE At(g.data, index)

\* get that does not rescale the coordinate to the grid's zoom
Get_NoRescale(g, x, y, zoom) ==
    IF zoom < g.zoom THEN Throw("TypeError", "invalid zoom level")
    ELSE LET index == ToIndex(g, x, y)
         IN  Return(IF index = Undefined THEN DefaultValue(g) ELSE CellValue(g, index))

\* BooleanTileGrid.get, NumericTileGrid.get, CategoricalTileGrid.get
Get(g, x, y, zoom) ==
    IF zoom < g.zoom THEN Throw("TypeError", "invalid zoom level")
    ELSE LET scale == 2 ^ (zoom - g.zoom)
             index == ToIndex(g, x \div scale, y \div scale)
         IN  Return(IF index = Undefined THEN DefaultValue(g) ELSE CellValue(g, index))

\* What the variant's typed array keeps of the value handed to set
Stored(g, value) ==
    CASE g.type = "BooleanTileGrid" -> IF value THEN 1 ELSE 0
      [] g.type = "NumericTileGrid" -> value
      [] g.type = "CategoricalTileGrid" -> ToUint8(value)

\* NumericTileGrid.set without "this.minMax = null"
Set_KeepsMinMax(g, x, y, value) ==
    LET index == ToIndex(g, x, y)
    IN  IF index = Undefined THEN Throw("TypeError", "coordinate out of range")
        ELSE Return([g EXCEPT !.data[index + 1] = Stored(g, value)])

\* set that writes the cell of the transposed index
Set_Transposed(g, x, y, value) ==
    LET index == ToIndex(g, x, y)
    IN  IF index = Undefined THEN Throw("TypeError", "coordinate out of range")
        ELSE Return([g EXCEPT
               !.data[((y - g.y) * g.width + (x - g.x)) + 1] = Stored(g, value),
               !.minMax = IF g.type = "NumericTileGrid" THEN NoMinMax ELSE @])

\* BooleanTileGrid.set, NumericTileGrid.set, CategoricalTileGrid.set: the grid
\* after the call, or the error thrown
Set(g, x, y, value) ==
    LET index == ToIndex(g, x, y)
    IN  IF index = Undefined THEN Throw("TypeError", "coordinate out of range")
        ELSE Return([g EXCEPT
               !.data[index + 1] = Stored(g, value),
               !.minMax = IF g.type = "NumericTileGrid" THEN NoMinMax ELSE @])

GridInit ==
    /\ grid = NoGrid
    /\ boolGrid = NoGrid

\* String(key) of a label code, as Object.fromEntries makes the property name
KeyString(k) ==
    CASE k = 0 -> "0" [] k = 1 -> "1" [] k = 2 -> "2" [] k = 255 -> "255"

\* parseInt(key)
ParseInt(str) ==
    CASE str = "0" -> 0 [] str = "1" -> 1 [] str = "2" -> 2 [] str = "255" -> 255

\* The integer-like property names of an object, in the order it lists them
RECURSIVE Ascending(_)
Ascending(S) ==
    IF S = {} THEN <<>>
    ELSE LET m == CHOOSE a \in S : \A b \in S : a <= b
         IN  <<m>> \o Ascending(S \ {m})

\* Object.fromEntries(map): one property per key, holding its label
FromEntries(entries) ==
    LET keys == Ascending({entries[i][1] : i \in DOMAIN entries})
        label(k) == entries[CHOOSE i \in DOMAIN entries : entries[i][1] = k][2]
    IN  [i \in 1..Len(keys) |-> <<KeyString(keys[i]), label(keys[i])>>]

\* BooleanTileGrid.toJSON, NumericTileGrid.toJSON, CategoricalTileGrid.toJSON
ToJSON(g) ==
    IF g.type = "CategoricalTileGrid" /\ ~g.labels.defined
    THEN Throw("TypeError", "undefined is not iterable")
    ELSE Return([type |-> g.type,
                 zoom |-> Whole(g.zoom), x |-> Whole(g.x), y |-> Whole(g.y),
                 width |-> Whole(g.width), height |-> Whole(g.height),
                 data |-> g.data,
                 hasLabels |-> g.type = "CategoricalTileGrid",
                 labels |-> IF g.type = "CategoricalTileGrid"
                            THEN FromEntries(g.labels.entries) ELSE <<>>])

\* Uint8Array.from(Object.values(json.data), value => value)
Uint8ArrayFrom(data) == [i \in DOMAIN data |-> ToUint8(data[i])]

\* fromJSON
FromJSON(json) ==
    CASE json.type = "BooleanTileGrid" ->
           BooleanTileGrid(json.zoom, json.x, json.y, json.width, json.height,
                           TRUE, Uint8ArrayFrom(json.data))
      [] json.type = "NumericTileGrid" ->
           NumericTileGrid(json.zoom, json.x, json.y, json.width, json.height,
                           TRUE, json.data)
      [] json.type = "CategoricalTileGrid" ->
           LET labels == IF json.hasLabels THEN json.labels ELSE <<>>
               map == [i \in DOMAIN labels |-> <<ParseInt(labels[i][1]), labels[i][2]>>]
           IN  CategoricalTileGrid(json.zoom, json.x, json.y, json.width, json.height,
                                   TRUE, Uint8ArrayFrom(json.data), TRUE, map)
      [] OTHER -> Throw("Error", "Invalid tile grid JSON")

\* The default handler of the worker boundary: a structural copy, which is a
\* plain object and no instance of a grid class
DefaultHandler(thing) == [thing EXCEPT !.type = "Object"]

\* The registered serializer's serialize
Serialize(thing) ==
    IF thing.type \in {"BooleanTileGrid", "NumericTileGrid"}
    THEN [tag |-> IF thing.type = "BooleanTileGrid"
                  THEN "$$BooleanTileGrid" ELSE "$$NumericTileGrid",
          zoom |-> Whole(thing.zoom), x |-> Whole(thing.x), y |-> Whole(thing.y),
          width |-> Whole(thing.width), height |-> Whole(thing.height),
          data |-> thing.data, plain |-> NoGrid]
    ELSE [tag |-> "", zoom |-> 0, x |-> 0, y |-> 0, width |-> 0, height |-> 0,
          data |-> <<>>, plain |-> DefaultHandler(thing)]

\* The registered serializer's deserialize
Deserialize(message) ==
    IF message.tag = "$$BooleanTileGrid"
    THEN BooleanTileGrid(message.zoom, message.x, message.y, message.width,
                         message.height, TRUE, message.data)
    ELSE IF message.tag = "$$NumericTileGrid"
    THEN NumericTileGrid(message.zoom, message.x, message.y, message.width,
                         message.height, TRUE, message.data)
    ELSE Return(message.plain)

\* The forEach of getMinMax, from element i on
RECURSIVE MinMaxFrom(_, _, _, _)
MinMaxFrom(data, i, min, max) ==
    IF i > Len(data) THEN <<min, max>>
    ELSE IF data[i] \notin {NaN, PosInf, NegInf}
         THEN MinMaxFrom(data, i + 1, IF data[i] < min THEN data[i] ELSE min,
                                      IF data[i] > max THEN data[i] ELSE max)
         ELSE MinMaxFrom(data, i + 1, min, max)

\* NumericTileGrid.getMinMax: the grid after the call
GetMinMax(g) ==
    IF ~g.minMax.cached
    THEN LET mm == MinMaxFrom(g.data, 1, PosInf, NegInf)
         IN  [g EXCEPT !.minMax = [cached |-> TRUE, min |-> mm[1], max |-> mm[2]]]
    ELSE g

(* ---- operations on the grid at hand ---- *)

Variants == {"BooleanTileGrid", "NumericTileGrid", "CategoricalTileGrid"}

\* Coordinates handed to get and set
Coordinates == 0..(MaxOrigin + MaxSide)

\* The values handed to the variant's set
SetValues(g) ==
    CASE g.type = "BooleanTileGrid" -> BOOLEAN
      [] g.type = "NumericTileGrid" -> Floats
      [] g.type = "CategoricalTileGrid" -> Codes
      [] OTHER -> {}

\* The zooms handed to get: coarser than the grid's, its own, and finer
QueryZooms(g) == IF IsTileGrid(g) THEN {g.zoom - 1, g.zoom, g.zoom + 1} ELSE {}

\* The caller has seen the result of its last call and makes the next one.
Ready == op.name \in {"init", "continue"}

\* A grid is built when there is none at hand; the numbers handed over are
\* within the bounds explored.
Geometry(type, zoom, x, y, width, height) ==
    /\ Ready
    /\ grid = NoGrid
    /\ zoom \in ZoomArgs
    /\ x \in OriginArgs /\ y \in OriginArgs
    /\ width \in SideArgs /\ height \in SideArgs
    /\ width * height <= Whole(Whole(MaxCells))

Constructed(via, type, zoom, x, y, width, height, r) ==
    /\ grid' = IF r.ok THEN r.value ELSE NoGrid
    /\ op' = [name |-> "new", via |-> via, type |-> type, zoom |-> zoom, x |-> x, y |-> y,
              width |-> width, height |-> height, ok |-> r.ok]
    /\ UNCHANGED <<sinkVars, debounceVars, boolGrid>>

NewBoolean(zoom, x, y, width, height, initialValue) ==
    /\ Geometry("BooleanTileGrid", zoom, x, y, width, height)
    /\ Constructed("constructor", "BooleanTileGrid", zoom, x, y, width, height,
                   BooleanTileGrid(zoom, x, y, width, height, FALSE, initialValue))

NewNumeric(zoom, x, y, width, height, initialValue) ==
    /\ Geometry("NumericTileGrid", zoom, x, y, width, height)
    /\ Constructed("constructor", "NumericTileGrid", zoom, x, y, width, height,
                   NumericTileGrid(zoom, x, y, width, height, FALSE, initialValue))

NewCategorical(zoom, x, y, width, height, hasLabels, labels) ==
    /\ Geometry("CategoricalTileGrid", zoom, x, y, width, height)
    /\ Constructed("constructor", "CategoricalTileGrid", zoom, x, y, width, height,
                   CategoricalTileGrid(zoom, x, y, width, height, FALSE, <<>>,
                                       hasLabels, labels))

\* A buffer of the declared size for a wire object, when the size is one
WireData(type, width, height) ==
    IF IsInteger(width) /\ IsInteger(height) /\ width > 0 /\ height > 0
    THEN Fill((width \div 2) * (height \div 2), IF type = "CategoricalTileGrid" THEN 255 ELSE 0)
    ELSE <<>>

\* fromJSON of a wire object received from outside
FromJSONCall(type, zoom, x, y, width, height) ==
    /\ Geometry(type, zoom, x, y, width, height)
    /\ Constructed("fromJSON", type, zoom, x, y, width, height,
                   FromJSON([type |-> type, zoom |-> zoom, x |-> x, y |-> y,
                             width |-> width, height |-> height,
                             data |-> WireData(type, width, height),
                             hasLabels |-> FALSE, labels |-> <<>>]))

\* deserialize of a tagged message received from outside
DeserializeCall(type, zoom, x, y, width, height) ==
    /\ Geometry(type, zoom, x, y, width, height)
    /\ Constructed("deserialize", type, zoom, x, y, width, height,
                   Deserialize([tag |-> IF type = "BooleanTileGrid"
                                        THEN "$$BooleanTileGrid" ELSE "$$NumericTileGrid",
                                zoom |-> zoom, x |-> x, y |-> y,
                                width |-> width, height |-> height,
                                data |-> WireData(type, width, height),
                                plain |-> NoGrid]))

\* grid.set(x, y, value)
SetCall(x, y, value) ==
    /\ Ready
    /\ IsTileGrid(grid)
    /\ LET r == Set(grid, x, y, value)
       IN  /\ grid' = IF r.ok THEN r.value ELSE grid
           /\ op' = [name |-> "set", x |-> x, y |-> y, value |-> value, ok |-> r.ok]
    /\ UNCHANGED <<sinkVars, debounceVars, boolGrid>>

\* grid.get(x, y, zoom)
GetCall(x, y, zoom) ==
    /\ Ready
    /\ IsTileGrid(grid)
    /\ LET r == Get(grid, x, y, zoom)
       IN  op' = [name |-> "get", x |-> x, y |-> y, zoom |-> zoom, ok |-> r.ok,
                  ret |-> IF r.ok THEN <<r.value>> ELSE <<>>]
    /\ UNCHANGED <<sinkVars, debounceVars, grid, boolGrid>>

\* grid.getMinMax() of a numeric grid
GetMinMaxCall ==
    /\ Ready
    /\ grid.type = "NumericTileGrid"
    /\ grid' = GetMinMax(grid)
    /\ op' = [name |-> "getMinMax", ret |-> <<grid'.minMax.min, grid'.minMax.max>>]
    /\ UNCHANGED <<sinkVars, debounceVars, boolGrid>>

\* grid = fromJSON(grid.toJSON())
JsonRoundTrip ==
    /\ Ready
    /\ IsTileGrid(grid)
    /\ LET json == ToJSON(grid)
           r == IF json.ok THEN FromJSON(json.value) ELSE json
       IN  /\ grid' = IF r.ok THEN r.value ELSE grid
           /\ op' = [name |-> "fromJSON(toJSON)", ok |-> r.ok]
    /\ UNCHANGED <<sinkVars, debounceVars, boolGrid>>

\* The grid crosses the worker boundary: deserialize(serialize(grid))
Transfer ==
    /\ Ready
    /\ IsTileGrid(grid)
    /\ LET message == Serialize(grid)
           r == Deserialize(message)
       IN  /\ grid' = IF r.ok THEN r.value ELSE grid
           /\ op' = [name |-> "transfer", tag |-> message.tag, ok |-> r.ok]
    /\ UNCHANGED <<sinkVars, debounceVars, boolGrid>>

\* The caller takes the result of its call.
Continue ==
    /\ ~Ready
    /\ op' = [name |-> "continue"]
    /\ UNCHANGED <<sinkVars, debounceVars, grid, boolGrid>>

\* The caller lets go of the grid at hand.
Drop ==
    /\ Ready
    /\ grid # NoGrid
    /\ grid' = NoGrid
    /\ op' = [name |-> "drop"]
    /\ UNCHANGED <<sinkVars, debounceVars, boolGrid>>

\* The arguments of a construction: none unless the caller is ready and has
\* no grid at hand.
ForNew(S) == IF Ready /\ grid = NoGrid THEN S ELSE {}

\* The arguments of a call on the grid at hand: none unless the caller is
\* ready and has one.
ForCall(S) == IF Ready /\ IsTileGrid(grid) THEN S ELSE {}

GridNext ==
    \/ \E zoom \in ForNew(ZoomArgs), x, y \in OriginArgs, width, height \in SideArgs :
         \/ \E initialValue \in BOOLEAN :
              NewBoolean(zoom, x, y, width, height, initialValue)
         \/ \E initialValue \in Floats :
              NewNumeric(zoom, x, y, width, height, initialValue)
         \/ NewCategorical(zoom, x, y, width, height, FALSE, <<>>)
         \/ \E labels \in LabelMaps :
              NewCategorical(zoom, x, y, width, height, TRUE, labels)
         \/ \E type \in Variants \cup {"UnknownTileGrid"} :
              FromJSONCall(type, zoom, x, y, width, height)
         \/ \E type \in {"BooleanTileGrid", "NumericTileGrid"} :
              DeserializeCall(type, zoom, x, y, width, height)
    \/ \E x \in ForCall(Coordinates), y \in Coordinates :
         \/ \E value \in SetValues(grid) : SetCall(x, y, value)
         \/ \E zoom \in QueryZooms(grid) : GetCall(x, y, zoom)
    \/ GetMinMaxCall
    \/ JsonRoundTrip
    \/ Transfer
    \/ Continue
    \/ Drop

GridSpecInit ==
    /\ SinkInit
    /\ DebounceInit
    /\ GridInit
    /\ op = [name |-> "init"]

SpecGrid == GridSpecInit /\ [][GridNext]_vars

SinkSpecInit ==
    /\ SinkInit
    /\ DebounceInit
    /\ GridInit
    /\ op = [name |-> "init"]

SpecSink == SinkSpecInit /\ [][SinkNext]_vars

DebounceSpecInit ==
    /\ SinkInit
    /\ DebounceInit
    /\ GridInit
    /\ op = [name |-> "init"]

SpecDebounce == DebounceSpecInit /\ [][DebounceNext]_vars

(* ---- painting a categorical grid from a boolean grid ---- *)

\* Keys handed to applyCategoryFromBooleanGrid
Keys == {1, 2}

\* applyCategoryFromBooleanGrid looping over boolGrid's extent, not its own
RECURSIVE ApplyFrom_BoolExtent(_, _, _, _)
ApplyFrom_BoolExtent(g, b, key, n) ==
    IF n >= b.width * b.height THEN Return(g)
    ELSE LET i == b.x + (n \div b.height)
             j == b.y + (n % b.height)
         IN  IF Get(b, i, j, b.zoom).value
             THEN LET r == Set(g, i, j, key)
                  IN  IF r.ok THEN ApplyFrom_BoolExtent(r.value, b, key, n + 1) ELSE r
             ELSE ApplyFrom_BoolExtent(g, b, key, n + 1)

\* The loops of applyCategoryFromBooleanGrid from the n-th cell of the
\* grid's own extent on: i runs over x..x+width-1 and, inside, j over
\* y..y+height-1
RECURSIVE ApplyFrom(_, _, _, _)
ApplyFrom(g, b, key, n) ==
    IF n >= g.width * g.height THEN Return(g)
    ELSE LET i == g.x + (n \div g.height)
             j == g.y + (n % g.height)
         IN  IF Get(b, i, j, b.zoom).value
             THEN LET r == Set(g, i, j, key)
                  IN  IF r.ok THEN ApplyFrom(r.value, b, key, n + 1) ELSE r
             ELSE ApplyFrom(g, b, key, n + 1)

\* CategoricalTileGrid.applyCategoryFromBooleanGrid: the grid after the call,
\* or the error thrown
ApplyCategoryFromBooleanGrid(g, b, key) == ApplyFrom(g, b, key, 0)

\* Whole numbers handed to the constructors of the two grids
ApplyOrigins == {Whole(o) : o \in 0..MaxOrigin}
ApplySides == {Whole(l) : l \in 1..MaxSide}

\* new BooleanTileGrid(...) for the grid to paint from
NewBoolGrid(zoom, x, y, width, height) ==
    /\ Ready
    /\ boolGrid = NoGrid
    /\ width * height <= Whole(Whole(MaxCells))
    /\ LET r == BooleanTileGrid(zoom, x, y, width, height, FALSE, FALSE)
       IN  /\ boolGrid' = IF r.ok THEN r.value ELSE NoGrid
           /\ op' = [name |-> "new boolGrid", ok |-> r.ok]
    /\ UNCHANGED <<sinkVars, debounceVars, grid>>

\* boolGrid.set(x, y, value)
BoolSetCall(x, y, value) ==
    /\ Ready
    /\ IsTileGrid(boolGrid)
    /\ LET r == Set(boolGrid, x, y, value)
       IN  /\ boolGrid' = IF r.ok THEN r.value ELSE boolGrid
           /\ op' = [name |-> "boolGrid.set", x |-> x, y |-> y, value |-> value, ok |-> r.ok]
    /\ UNCHANGED <<sinkVars, debounceVars, grid>>

\* grid.applyCategoryFromBooleanGrid(boolGrid, key)
ApplyCall(key) ==
    /\ Ready
    /\ grid.type = "CategoricalTileGrid"
    /\ IsTileGrid(boolGrid)
    /\ LET r == ApplyCategoryFromBooleanGrid(grid, boolGrid, key)
       IN  /\ grid' = IF r.ok THEN r.value ELSE grid
           /\ op' = [name |-> "apply", key |-> key, ok |-> r.ok]
    /\ UNCHANGED <<sinkVars, debounceVars, boolGrid>>

\* The caller lets go of the boolean grid.
DropBoolGrid ==
    /\ Ready
    /\ boolGrid # NoGrid
    /\ boolGrid' = NoGrid
    /\ op' = [name |-> "drop boolGrid"]
    /\ UNCHANGED <<sinkVars, debounceVars, grid>>

ApplyNext ==
    \/ \E x \in ForNew(ApplyOrigins), y \in ApplyOrigins, width, height \in ApplySides :
         NewCategorical(Whole(1), x, y, width, height, FALSE, <<>>)
    \/ \E zoom \in {Whole(1), Whole(2)}, x, y \in ApplyOrigins, width, height \in ApplySides :
         NewBoolGrid(zoom, x, y, width, height)
    \/ \E x, y \in Coordinates, value \in BOOLEAN : BoolSetCall(x, y, value)
    \/ \E key \in Keys : ApplyCall(key)
    \/ Continue
    \/ Drop
    \/ DropBoolGrid

SpecApply == GridSpecInit /\ [][ApplyNext]_vars

(* ---- the label of a categorical cell ---- *)

\* Map.prototype.get: the label of the key, or nothing for undefined
MapGet(entries, key) ==
    IF \E i \in DOMAIN entries : entries[i][1] = key
    THEN <<entries[CHOOSE i \in DOMAIN entries : entries[i][1] = key][2]>>
    ELSE <<>>

\* CategoricalTileGrid.getAsLabel: the label returned (nothing for
\* undefined), or the error thrown. "zoom = this.zoom" in the argument list
\* of this.get assigns the grid's zoom to the parameter, so the zoom handed
\* in is never used.
GetAsLabel(g, x, y, zoom) ==
    IF ~g.labels.defined
    THEN Throw("TypeError", "Cannot read properties of undefined (reading 'size')")
    ELSE IF Len(g.labels.entries) > 0 THEN Return(<<>>)
    ELSE LET c == Get(g, x, y, g.zoom)
         IN  IF c.ok THEN Return(MapGet(g.labels.entries, c.value)) ELSE c

\* grid.getAsLabel(x, y, zoom)
GetAsLabelCall(x, y, zoom) ==
    /\ Ready
    /\ grid.type = "CategoricalTileGrid"
    /\ LET r == GetAsLabel(grid, x, y, zoom)
       IN  op' = [name |-> "getAsLabel", x |-> x, y |-> y, zoom |-> zoom, ok |-> r.ok,
                  ret |-> IF r.ok THEN r.value ELSE <<>>]
    /\ UNCHANGED <<sinkVars, debounceVars, grid, boolGrid>>

LabelNext ==
    \/ \E x \in ForNew(ApplyOrigins), y \in ApplyOrigins, width, height \in ApplySides :
         \/ NewCategorical(Whole(1), x, y, width, height, FALSE, <<>>)
         \/ \E labels \in LabelMaps :
              NewCategorical(Whole(1), x, y, width, height, TRUE, labels)
    \/ \E x \in ForCall(Coordinates), y \in Coordinates :
         \/ \E value \in SetValues(grid) : SetCall(x, y, value)
         \/ \E zoom \in QueryZooms(grid) : GetAsLabelCall(x, y, zoom)
    \/ Continue
    \/ Drop

SpecLabel == GridSpecInit /\ [][LabelNext]_vars

\* C1 (as claimed): a pass superseded by a later dispatch applies nothing:
\* when its sink worker runs, no error annotation is set or cleared and the
\* save callback is not called.
C1_SupersededPassAppliesNothing ==
    [][(op'.name = "worker" /\ op'.gen # generation)
         => (errorMessage' = errorMessage /\ saveCalls' = saveCalls)]_vars

\* C2 (as claimed): every invocation of the sink's transform sets the error
\* annotation and makes no save call when 'in' is empty, and otherwise calls
\* save once with the node id and the first value and clears the annotation.
C2_EveryInvocationApplies ==
    [][op'.name = "worker"
         => IF Len(op'.inputs) = 0
              THEN errorMessage' = "No input" /\ saveCalls' = saveCalls
              ELSE /\ saveCalls' = Append(saveCalls, <<SinkId, op'.inputs[1]>>)
                   /\ errorMessage' = NoError]_vars

\* C2 (amended): the same for every invocation that finds the node in the
\* editor's node list; an invocation that does not find it changes nothing.
C2_InvocationOnEditorNodeApplies ==
    [][op'.name = "worker"
         => IF ~op'.present
              THEN errorMessage' = errorMessage /\ saveCalls' = saveCalls
              ELSE IF Len(op'.inputs) = 0
                THEN errorMessage' = "No input" /\ saveCalls' = saveCalls
                ELSE /\ saveCalls' = Append(saveCalls, <<SinkId, op'.inputs[1]>>)
                     /\ errorMessage' = NoError]_vars

\* C2 witness: the worker ran on a node present in the editor that carried an
\* error, with a non-empty list: the error is gone and save was called.
C2_Witness ==
    /\ op.name = "worker"
    /\ op.present
    /\ Len(op.inputs) = 2
    /\ op.errBefore = "No input"
    /\ errorMessage = NoError
    /\ saveCalls # <<>>
    /\ saveCalls[Len(saveCalls)] = <<SinkId, op.inputs[1]>>

\* C3 (as claimed): over any sequence of edits each less than Delay ms after
\* the previous one, exactly one "process" trigger is emitted, Delay ms after
\* the last edit and not before.
C3_OneTriggerPerEditSequence ==
    /\ op.name = "trigger" => op.idle = Delay
    /\ burstTriggers <= 1

\* C3 (amended): the same for the edits of one node component, each of which
\* has a timer of its own: its trigger comes Delay ms after its last edit,
\* its timer is armed for the rest of Delay while an edit is younger than
\* that, and a sequence of its edits emits no trigger while the timer is armed
\* and exactly one once it has run.
C3_OneTriggerPerComponentSequence ==
    /\ op.name = "trigger" => op.sinceEdit = Delay
    /\ \A c \in Components :
         /\ sinceEdit[c] < Delay => inputDebounceTimer[c] = Delay - sinceEdit[c]
         /\ inputDebounceTimer[c] # NoTimer => ownTriggers[c] = 0
         /\ (inputDebounceTimer[c] = NoTimer /\ edits[c] > 0) => ownTriggers[c] = 1

\* C3 witness: a component's timer ran after it had been re-armed by a later
\* edit, and emitted the one trigger of that sequence.
C3_Witness ==
    /\ op.name = "trigger"
    /\ burstEdits[op.c] >= 2
    /\ ownTriggers[op.c] = 1
    /\ inputDebounceTimer[op.c] = NoTimer

(* ---- what the tile grid claims speak of ---- *)

\* The cells of a grid, by coordinate
Cells(g) == (g.x..(g.x + g.width - 1)) \X (g.y..(g.y + g.height - 1))

\* The value get returns for a coordinate at the grid's own zoom
CellAt(g, x, y) == Get(g, x, y, g.zoom).value

\* The code-to-label dictionary of a grid
Dictionary(g) == {g.labels.entries[i] : i \in DOMAIN g.labels.entries}

\* Same concrete variant, same geometry, same value in every cell and, for a
\* categorical grid, the same dictionary
SameGrid(g, h) ==
    /\ h.type = g.type
    /\ h.zoom = g.zoom /\ h.x = g.x /\ h.y = g.y
    /\ h.width = g.width /\ h.height = g.height
    /\ \A c \in Cells(g) : CellAt(h, c[1], c[2]) = CellAt(g, c[1], c[2])
    /\ g.type = "CategoricalTileGrid" => Dictionary(h) = Dictionary(g)

\* C4 (as claimed): fromJSON(g.toJSON()) succeeds for every grid and yields
\* a grid of the same variant, geometry, cell values and label dictionary.
C4_JsonRoundTripReproducesGrid ==
    [][op'.name = "fromJSON(toJSON)" => (op'.ok /\ SameGrid(grid, grid'))]_vars

\* C5 (as claimed): serialize then deserialize gives every grid a
\* variant-specific tag and yields a grid of the same variant, geometry, cell
\* values and label dictionary.
C5_TransferReproducesGrid ==
    [][op'.name = "transfer"
         => (op'.ok /\ op'.tag # "" /\ SameGrid(grid, grid'))]_vars

\* The minimum and maximum over the finite cells of a buffer
TrueMinMax(data) ==
    LET finite == {data[i] : i \in DOMAIN data} \ {NaN, PosInf, NegInf}
    IN  IF finite = {} THEN <<PosInf, NegInf>>
        ELSE <<CHOOSE a \in finite : \A b \in finite : a <= b,
               CHOOSE a \in finite : \A b \in finite : a >= b>>

\* C6: a numeric grid's cached minMax is null or the minimum and maximum of
\* the finite cells now in the buffer, and getMinMax returns that pair.
C6_MinMaxOverFiniteCells ==
    grid.type = "NumericTileGrid" =>
        /\ grid.minMax.cached => <<grid.minMax.min, grid.minMax.max>> = TrueMinMax(grid.data)
        /\ op.name = "getMinMax" => op.ret = TrueMinMax(grid.data)

\* C6 witness: getMinMax returned a minimum below the maximum for a buffer
\* that also holds a non-finite cell.
C6_Witness ==
    /\ grid.type = "NumericTileGrid"
    /\ op.name = "getMinMax"
    /\ \E i \in DOMAIN grid.data : grid.data[i] \in {NaN, PosInf}
    /\ op.ret[1] < op.ret[2]

\* The values of a variant's cell domain
InDomain(g, value) ==
    CASE g.type = "BooleanTileGrid" -> value \in BOOLEAN
      [] g.type = "NumericTileGrid" -> value \in Floats
      [] g.type = "CategoricalTileGrid" -> value \in 0..255

\* C7: set of a value of the cell domain at a coordinate inside the extent
\* makes get return it there and changes no other cell; set outside the
\* extent fails and leaves every cell of the buffer as it was.
C7_SetThenGet ==
    [][(op'.name = "set" /\ InDomain(grid, op'.value))
         => IF <<op'.x, op'.y>> \in Cells(grid)
            THEN /\ op'.ok
                 /\ Get(grid', op'.x, op'.y, grid'.zoom) = Return(op'.value)
                 /\ \A c \in Cells(grid) \ {<<op'.x, op'.y>>} :
                      CellAt(grid', c[1], c[2]) = CellAt(grid, c[1], c[2])
            ELSE /\ ~op'.ok
                 /\ grid'.data = grid.data]_vars

\* C7 witness: a set inside a two by two extent, off its diagonal, took
\* effect while another cell holds another value.
C7_Witness ==
    /\ op.name = "set" /\ op.ok
    /\ grid.width = 2 /\ grid.height = 2
    /\ op.x = grid.x + 1 /\ op.y = grid.y
    /\ CellAt(grid, op.x, op.y) = op.value
    /\ CellAt(grid, grid.x, grid.y + 1) # op.value

\* The boolean grid of the example: zoom 3, origin (1, 1), two by two
Example(g) ==
    /\ g.type = "BooleanTileGrid"
    /\ g.zoom = 3 /\ g.x = 1 /\ g.y = 1 /\ g.width = 2 /\ g.height = 2

\* The call get(x, y, zoom) is the last one made
Got(x, y, zoom) == op.name = "get" /\ op.x = x /\ op.y = y /\ op.zoom = zoom

\* C8 (as claimed): on the example grid get(0,0) is false; after
\* set(1,1,true), get(1,1) is true and get(1,1, queryZoom=4) is true.
C8_ExampleAsClaimed ==
    Example(grid) =>
        /\ (grid.data = <<0, 0, 0, 0>> /\ Got(0, 0, 3)) => op.ret = <<FALSE>>
        /\ (grid.data = <<1, 0, 0, 0>> /\ Got(1, 1, 3)) => op.ret = <<TRUE>>
        /\ (grid.data = <<1, 0, 0, 0>> /\ Got(1, 1, 4)) => op.ret = <<TRUE>>

\* C8 (amended): on the example grid get(0,0) is false; after set(1,1,true),
\* get(1,1) is true, get(1,1, queryZoom=4) rescales to (0,0), outside the
\* extent, and is false, and get(2,2, queryZoom=4) up to get(3,3, queryZoom=4)
\* rescale to the cell that was set and are true.
C8_ExampleRescaled ==
    Example(grid) =>
        /\ (grid.data = <<0, 0, 0, 0>> /\ Got(0, 0, 3)) => op.ret = <<FALSE>>
        /\ (grid.data = <<1, 0, 0, 0>> /\ Got(1, 1, 3)) => op.ret = <<TRUE>>
        /\ (grid.data = <<1, 0, 0, 0>> /\ Got(1, 1, 4)) => op.ret = <<FALSE>>
        /\ \A x, y \in {2, 3} :
             (grid.data = <<1, 0, 0, 0>> /\ Got(x, y, 4)) => op.ret = <<TRUE>>

\* C8 witness: get(1,1, queryZoom=4) was called on the example grid after
\* set(1,1,true).
C8_Witness ==
    /\ Example(grid)
    /\ grid.data = <<1, 0, 0, 0>>
    /\ Got(1, 1, 4)
    /\ op.ret = <<FALSE>>

\* The range rule for the numbers handed to a constructor (in halves)
ValidGeometry(zoom, x, y, width, height) ==
    /\ \A n \in {zoom, x, y, width, height} : n % 2 = 0
    /\ zoom >= 0
    /\ LET size == 2 ^ (zoom \div 2)
       IN  /\ x \div 2 \in 0..(size - 1)
           /\ y \div 2 \in 0..(size - 1)
           /\ width \div 2 \in 1..(size - x \div 2)
           /\ height \div 2 \in 1..(size - y \div 2)

\* C9: a construction, by constructor, fromJSON or deserialize, succeeds
\* exactly when the numbers obey the range rule and then yields a grid with
\* them; every grid obeys the rule, and its geometry never changes.
C9_ConstructionValidatesGeometry ==
    [][/\ (op'.name = "new" /\ op'.type \in Variants) =>
             /\ op'.ok <=> ValidGeometry(op'.zoom, op'.x, op'.y, op'.width, op'.height)
             /\ op'.ok => /\ grid'.type = op'.type
                          /\ Whole(grid'.zoom) = op'.zoom
                          /\ Whole(grid'.x) = op'.x /\ Whole(grid'.y) = op'.y
                          /\ Whole(grid'.width) = op'.width
                          /\ Whole(grid'.height) = op'.height
       /\ IsTileGrid(grid') =>
             ValidGeometry(Whole(grid'.zoom), Whole(grid'.x), Whole(grid'.y),
                           Whole(grid'.width), Whole(grid'.height))
       /\ (IsTileGrid(grid) /\ IsTileGrid(grid')) =>
             /\ grid'.zoom = grid.zoom /\ grid'.x = grid.x /\ grid'.y = grid.y
             /\ grid'.width = grid.width /\ grid'.height = grid.height]_vars

\* C9 witness: deserialize was handed integers with an extent reaching past
\* 2^zoom, and failed.
C9_Witness ==
    /\ op.name = "new" /\ op.via = "deserialize"
    /\ op.zoom = Whole(1) /\ op.x = Whole(1) /\ op.width = Whole(2)
    /\ op.y = Whole(0) /\ op.height = Whole(1)
    /\ ~op.ok
    /\ grid = NoGrid

\* C10: applyCategoryFromBooleanGrid(boolGrid, code) never fails; every cell
\* of the categorical grid's extent where boolGrid.get is true holds the
\* code afterwards and every other one keeps its value; the buffer has no
\* other cell, and the geometry stays.
C10_ApplyPaintsTrueCells ==
    [][op'.name = "apply"
         => /\ op'.ok
            /\ \A c \in Cells(grid) :
                 CellAt(grid', c[1], c[2]) =
                     IF Get(boolGrid, c[1], c[2], boolGrid.zoom) = Return(TRUE)
                     THEN op'.key ELSE CellAt(grid, c[1], c[2])
            /\ Cells(grid') = Cells(grid)
            /\ Len(grid'.data) = Len(grid.data)
            /\ grid'.zoom = grid.zoom]_vars

\* C10 witness: a boolean grid covering only part of the categorical grid's
\* extent, and reaching outside it, was applied: a cell holds the code, a
\* cell outside the boolean grid keeps another value.
C10_Witness ==
    /\ op.name = "apply" /\ op.ok
    /\ \E c \in Cells(grid) : c \notin Cells(boolGrid) /\ CellAt(grid, c[1], c[2]) # op.key
    /\ \E c \in Cells(grid) : CellAt(boolGrid, c[1], c[2]) /\ CellAt(grid, c[1], c[2]) = op.key
    /\ \E c \in Cells(boolGrid) : c \notin Cells(grid) /\ CellAt(boolGrid, c[1], c[2])
    /\ \E c \in Cells(grid) : c \in Cells(boolGrid) /\ ~CellAt(boolGrid, c[1], c[2])

\* C11 (as claimed): for a categorical grid with a label dictionary,
\* getAsLabel(x, y, zoom) returns the label of the code get(x, y, zoom) when
\* the code is a key of the dictionary, and undefined when it is not.
C11_LabelOfCode ==
    (op.name = "getAsLabel" /\ grid.labels.defined /\ op.zoom >= grid.zoom) =>
        /\ op.ok
        /\ op.ret = MapGet(grid.labels.entries, Get(grid, op.x, op.y, op.zoom).value)

====
